---- MODULE Spec2Model ----
(***************************************************************************)
(* Known Values: the bidirectional store (known_value_store.rs), the       *)
(* directory loader (directory_loader.rs) and the lazily built shared      *)
(* registry (known_values_registry.rs).                                    *)
(***************************************************************************)
EXTENDS Integers, Sequences, FiniteSets, TLC

(***************************************************************************)
(* Values                                                                  *)
(***************************************************************************)

\* Option<T>: None is the empty sequence, Some(x) the one-element sequence.
None == <<>>
Some(x) == <<x>>

\* The codepoints and names the operations' inputs are drawn from.
Codepoints == {1, 2}
Names == {"isA", "x"}

\* KnownValue { value, assigned_name } (known_value.rs, used by every file).
KV(c, n) == [value |-> c, assigned_name |-> n]
OptNames == {None} \cup {Some(n) : n \in Names}
KnownValues == {KV(c, n) : c \in Codepoints, n \in OptNames}

\* Longest collection handed to KnownValuesStore::new in the store model.
MaxInit == 2

\* HashMap operations: insert, remove.
Put(m, k, v) == (k :> v) @@ m
Remove(m, k) == [x \in (DOMAIN m) \ {k} |-> m[x]]
EmptyMap == [x \in {} |-> x]

SeqsUpTo(S, n) == UNION {[1..k -> S] : k \in 0..n}

(***************************************************************************)
(* known_value_store.rs                                                    *)
(***************************************************************************)

\* _insert without the removal of the replaced identifier's name.
_insert_keeps_old_name(known_value, by_raw, by_name) ==
    [known_values_by_raw_value |-> Put(by_raw, known_value.value, known_value),
     known_values_by_assigned_name |->
        IF known_value.assigned_name # None
        THEN Put(by_name, known_value.assigned_name[1], known_value)
        ELSE by_name]

\* _insert that removes the replaced identifier's name only after writing the new one.
_insert_removes_after(known_value, by_raw, by_name) ==
    LET named == IF known_value.assigned_name # None
                 THEN Put(by_name, known_value.assigned_name[1], known_value)
                 ELSE by_name
        old_name == IF known_value.value \in DOMAIN by_raw
                    THEN by_raw[known_value.value].assigned_name
                    ELSE None
    IN [known_values_by_raw_value |-> Put(by_raw, known_value.value, known_value),
        known_values_by_assigned_name |->
            IF old_name # None THEN Remove(named, old_name[1]) ELSE named]

\* _insert leaving a name with the identifier that already holds it.
_insert_name_once(known_value, by_raw, by_name) ==
    LET old_name == IF known_value.value \in DOMAIN by_raw
                    THEN by_raw[known_value.value].assigned_name
                    ELSE None
        removed == IF old_name # None THEN Remove(by_name, old_name[1]) ELSE by_name
    IN [known_values_by_raw_value |-> Put(by_raw, known_value.value, known_value),
        known_values_by_assigned_name |->
            IF known_value.assigned_name # None
               /\ known_value.assigned_name[1] \notin DOMAIN removed
            THEN Put(removed, known_value.assigned_name[1], known_value)
            ELSE removed]

\* KnownValuesStore::_insert on the two maps; the result is the pair of maps.
_insert(known_value, by_raw, by_name) ==
    LET old_name == IF known_value.value \in DOMAIN by_raw
                    THEN by_raw[known_value.value].assigned_name
                    ELSE None
        removed == IF old_name # None THEN Remove(by_name, old_name[1]) ELSE by_name
    IN [known_values_by_raw_value |-> Put(by_raw, known_value.value, known_value),
        known_values_by_assigned_name |->
            IF known_value.assigned_name # None
            THEN Put(removed, known_value.assigned_name[1], known_value)
            ELSE removed]

\* KnownValuesStore::insert: the store after inserting known_value.
insert(s, known_value) ==
    _insert(known_value, s.known_values_by_raw_value, s.known_values_by_assigned_name)

RECURSIVE InsertAll(_, _)
\* The store after insert(xs[1]), insert(xs[2]), ... in order: the first half
\* of xs is inserted, the resulting store is evaluated (a = a), and the second
\* half is inserted into it.
InsertAll(s, xs) ==
    IF xs = <<>> THEN s
    ELSE IF Len(xs) = 1 THEN insert(s, xs[1])
    ELSE LET h == Len(xs) \div 2
             a == InsertAll(s, SubSeq(xs, 1, h))
         IN IF a = a THEN InsertAll(a, SubSeq(xs, h + 1, Len(xs))) ELSE a

EmptyStore ==
    [known_values_by_raw_value |-> EmptyMap, known_values_by_assigned_name |-> EmptyMap]

\* KnownValuesStore::new taking the collection last element first.
new_reversed(known_values) ==
    InsertAll(EmptyStore,
              [i \in 1..Len(known_values) |-> known_values[Len(known_values) + 1 - i]])

\* KnownValuesStore::new(known_values).
new(known_values) == InsertAll(EmptyStore, known_values)

\* KnownValuesStore::known_value_named.
known_value_named(s, assigned_name) ==
    IF assigned_name \in DOMAIN s.known_values_by_assigned_name
    THEN Some(s.known_values_by_assigned_name[assigned_name])
    ELSE None

\* KnownValuesStore::known_value_for_raw_value never consulting the store.
known_value_for_raw_value_no_store(raw_value, known_values) == KV(raw_value, None)

\* KnownValuesStore::known_value_for_raw_value(raw_value, known_values: Option<&Self>).
known_value_for_raw_value(raw_value, known_values) ==
    IF known_values # None
       /\ raw_value \in DOMAIN known_values[1].known_values_by_raw_value
    THEN known_values[1].known_values_by_raw_value[raw_value]
    ELSE KV(raw_value, None)

\* KnownValuesStore::assigned_name answering with the argument's own name.
assigned_name_own(s, known_value) == known_value.assigned_name

\* KnownValuesStore::assigned_name.
assigned_name(s, known_value) ==
    IF known_value.value \in DOMAIN s.known_values_by_raw_value
    THEN s.known_values_by_raw_value[known_value.value].assigned_name
    ELSE None

\* u64::to_string: the decimal digits of n.
Digits == <<"0", "1", "2", "3", "4", "5", "6", "7", "8", "9">>
\* to_string keeping the last digit only.
Decimal_last_digit(n) == Digits[(n % 10) + 1]

RECURSIVE Decimal(_)
Decimal(n) ==
    IF n < 10 THEN Digits[n + 1] ELSE Decimal(n \div 10) \o Digits[(n % 10) + 1]

\* KnownValue::name(): the assigned name, or the codepoint in decimal.
KnownValue_name(known_value) ==
    IF known_value.assigned_name # None THEN known_value.assigned_name[1]
    ELSE Decimal(known_value.value)

\* KnownValuesStore::name.
name(s, known_value) ==
    LET n == assigned_name(s, known_value) IN
    IF n # None THEN n[1] ELSE KnownValue_name(known_value)

\* KnownValuesStore::name_for_known_value(known_value, known_values: Option<&Self>).
name_for_known_value(known_value, known_values) ==
    LET n == IF known_values # None THEN assigned_name(known_values[1], known_value)
             ELSE None
    IN IF n # None THEN n[1] ELSE KnownValue_name(known_value)

(***************************************************************************)
(* The file system the loader reads                                        *)
(***************************************************************************)

\* DirectoryConfig::default_directory(): ~/.known-values (or ./.known-values).
default_directory == "~/.known-values"

\* The locations a configuration can name.
Dirs == {default_directory, "d1"}

\* Most directory entries in the whole file system.
MaxFiles == 2

\* Longest list of search paths in a DirectoryConfig.
MaxPaths == 2

\* RegistryEntry as the loader uses it: codepoint and canonical_name.
RegistryEntries == [codepoint : Codepoints, canonical_name : Names]

\* What read_dir yields for one entry: an error, or a file with an extension and
\* a content that is unreadable, not a RegistryFile, or a RegistryFile's entries.
EntryError == [ext |-> "", status |-> "entry_error", entries |-> <<>>]
File(ext, status, entries) == [ext |-> ext, status |-> status, entries |-> entries]
RegistryFiles ==
    {File("json", "ok", es) : es \in {<<>>} \cup {<<e>> : e \in RegistryEntries}}
DirEntries ==
    {EntryError, File("json", "unreadable", <<>>), File("json", "malformed", <<>>),
     File("txt", "malformed", <<>>),
     File("txt", "ok", <<[codepoint |-> 1, canonical_name |-> "x"]>>)}
    \cup RegistryFiles

\* A location: missing, a regular file, a directory read_dir cannot open
\* ("denied"), or a directory with its entries in the order read_dir yields them.
Location(kind, files) == [kind |-> kind, files |-> files]
Locations ==
    {Location(k, <<>>) : k \in {"missing", "file", "denied"}}
    \cup {Location("dir", fs) : fs \in SeqsUpTo(DirEntries, MaxFiles)}

RECURSIVE TotalFiles(_, _)
TotalFiles(f, ds) ==
    IF ds = {} THEN 0
    ELSE LET d == CHOOSE x \in ds : TRUE
         IN Len(f[d].files) + TotalFiles(f, ds \ {d})

FileSystems == {f \in [Dirs -> Locations] : TotalFiles(f, Dirs) <= MaxFiles}

\* PathBuf of a location (file = 0) or of the i-th entry of its listing.
Path(d, i) == [dir |-> d, file |-> i]

(***************************************************************************)
(* directory_loader.rs                                                     *)
(***************************************************************************)

\* LoadError::Io and LoadError::Json { file, .. }.
Io == [error |-> "Io", file |-> Path("", 0)]
Json(file) == [error |-> "Json", file |-> file]

\* Result<T, LoadError>.
Ok(v) == [ok |-> TRUE, value |-> v, err |-> Io]
Err(e) == [ok |-> FALSE, value |-> <<>>, err |-> e]

\* serde_json::from_str::<RegistryFile>(content) succeeds: the content is a
\* JSON object with an entries array, and every entry has the two fields
\* RegistryEntry requires, codepoint and canonical_name (keys RegistryEntry
\* does not declare are passed over).
from_str(f) ==
    /\ f.status = "ok"
    /\ \A i \in DOMAIN f.entries :
          {"codepoint", "canonical_name"} \subseteq DOMAIN f.entries[i]

\* The KnownValue made of each entry of a RegistryFile, in order.
EntryValues(entries) ==
    [i \in 1..Len(entries) |->
        KV(entries[i].codepoint, Some(entries[i].canonical_name))]

\* The extension test letting every file through.
IsJson_any(f) == TRUE

\* file_path.extension().map_or(false, |ext| ext == "json")
IsJson(f) == f.ext = "json"

\* load_single_file refusing a RegistryFile without entries.
load_single_file_rejects_empty(f, path) ==
    IF f.status = "unreadable" THEN Err(Io)
    ELSE IF f.status = "malformed" \/ f.entries = <<>> THEN Err(Json(path))
    ELSE Ok(EntryValues(f.entries))

\* load_single_file(path): fs::read_to_string, serde_json::from_str, the values.
load_single_file(f, path) ==
    IF f.status = "unreadable" THEN Err(Io)
    ELSE IF ~from_str(f) THEN Err(Json(path))
    ELSE Ok(EntryValues(f.entries))

\* The check without its is_dir half.
NotADirectory_exists_only(loc) == loc.kind = "missing"

\* !path.exists() || !path.is_dir()
NotADirectory(loc) == loc.kind \in {"missing", "file"}

RECURSIVE StrictEntries_skips(_, _, _, _)
\* The strict loop passing over a .json file that fails to read or parse.
StrictEntries_skips(loc, d, i, values) ==
    IF i > Len(loc.files) THEN Ok(values)
    ELSE LET f == loc.files[i] IN
         IF f.status = "entry_error" THEN Err(Io)
         ELSE IF ~IsJson(f) \/ f.status # "ok"
              THEN StrictEntries_skips(loc, d, i + 1, values)
         ELSE StrictEntries_skips(loc, d, i + 1, values \o EntryValues(f.entries))

RECURSIVE StrictEntries(_, _, _, _)
\* The loop of load_from_directory from entry i on, values being those pushed so far.
StrictEntries(loc, d, i, values) ==
    IF i > Len(loc.files) THEN Ok(values)
    ELSE LET f == loc.files[i] IN
         IF f.status = "entry_error" THEN Err(Io)
         ELSE IF ~IsJson(f) THEN StrictEntries(loc, d, i + 1, values)
         ELSE IF f.status = "unreadable" THEN Err(Io)
         ELSE IF ~from_str(f) THEN Err(Json(Path(d, i)))
         ELSE StrictEntries(loc, d, i + 1, values \o EntryValues(f.entries))

\* load_from_directory(path) on file system f.
load_from_directory(f, d) ==
    IF NotADirectory(f[d]) THEN Ok(<<>>)
    ELSE IF f[d].kind # "dir" THEN Err(Io)
    ELSE StrictEntries(f[d], d, 1, <<>>)

RECURSIVE TolerantEntries_stops(_, _, _, _, _)
\* The tolerant loop giving up on the listing at the first file that fails.
TolerantEntries_stops(loc, d, i, values, errors) ==
    IF i > Len(loc.files) THEN Ok([values |-> values, errors |-> errors])
    ELSE LET f == loc.files[i] IN
         IF f.status = "entry_error" THEN Err(Io)
         ELSE IF ~IsJson(f) THEN TolerantEntries_stops(loc, d, i + 1, values, errors)
         ELSE LET r == load_single_file(f, Path(d, i)) IN
              IF r.ok
              THEN TolerantEntries_stops(loc, d, i + 1, values \o r.value, errors)
              ELSE Ok([values |-> values,
                       errors |-> Append(errors, <<Path(d, i), r.err>>)])

RECURSIVE TolerantEntries(_, _, _, _, _)
\* The loop of load_from_directory_tolerant from entry i on.
TolerantEntries(loc, d, i, values, errors) ==
    IF i > Len(loc.files) THEN Ok([values |-> values, errors |-> errors])
    ELSE LET f == loc.files[i] IN
         IF f.status = "entry_error" THEN Err(Io)
         ELSE IF ~IsJson(f) THEN TolerantEntries(loc, d, i + 1, values, errors)
         ELSE LET r == load_single_file(f, Path(d, i)) IN
              IF r.ok
              THEN TolerantEntries(loc, d, i + 1, values \o r.value, errors)
              ELSE TolerantEntries(loc, d, i + 1, values,
                                   Append(errors, <<Path(d, i), r.err>>))

\* load_from_directory_tolerant(path) on file system f.
load_from_directory_tolerant(f, d) ==
    IF NotADirectory(f[d]) THEN Ok([values |-> <<>>, errors |-> <<>>])
    ELSE IF f[d].kind # "dir" THEN Err(Io)
    ELSE TolerantEntries(f[d], d, 1, <<>>, <<>>)

RECURSIVE InsertValues_first_wins(_, _)
\* The merge keeping the value a codepoint already has.
InsertValues_first_wins(m, values) ==
    IF values = <<>> THEN m
    ELSE InsertValues_first_wins(
             IF Head(values).value \in DOMAIN m THEN m
             ELSE Put(m, Head(values).value, Head(values)),
             Tail(values))

RECURSIVE InsertValues(_, _)
\* result.values.insert(value.value(), value) for each value in order.
InsertValues(m, values) ==
    IF values = <<>> THEN m
    ELSE InsertValues(Put(m, Head(values).value, Head(values)), Tail(values))

\* LoadResult::default().
EmptyLoadResult == [values |-> EmptyMap, files_processed |-> <<>>, errors |-> <<>>]

RECURSIVE ConfigPaths_aborts(_, _, _, _)
\* The loop of load_from_config ending at the first location that fails.
ConfigPaths_aborts(f, paths, i, result) ==
    IF i > Len(paths) THEN result
    ELSE LET r == load_from_directory_tolerant(f, paths[i]) IN
         IF r.ok
         THEN ConfigPaths_aborts(f, paths, i + 1,
                  [values |-> InsertValues(result.values, r.value.values),
                   files_processed |-> Append(result.files_processed, paths[i]),
                   errors |-> result.errors \o r.value.errors])
         ELSE [result EXCEPT !.errors = Append(@, <<Path(paths[i], 0), r.err>>)]

RECURSIVE ConfigPaths_lists_failed(_, _, _, _)
\* The loop of load_from_config listing a failed location as processed too.
ConfigPaths_lists_failed(f, paths, i, result) ==
    IF i > Len(paths) THEN result
    ELSE LET r == load_from_directory_tolerant(f, paths[i]) IN
         ConfigPaths_lists_failed(f, paths, i + 1,
            IF r.ok
            THEN [values |-> InsertValues(result.values, r.value.values),
                  files_processed |-> Append(result.files_processed, paths[i]),
                  errors |-> result.errors \o r.value.errors]
            ELSE [result EXCEPT
                     !.files_processed = Append(@, paths[i]),
                     !.errors = Append(@, <<Path(paths[i], 0), r.err>>)])

RECURSIVE ConfigPaths(_, _, _, _)
\* The loop of load_from_config from path i of the configuration on.
ConfigPaths(f, paths, i, result) ==
    IF i > Len(paths) THEN result
    ELSE LET r == load_from_directory_tolerant(f, paths[i]) IN
         ConfigPaths(f, paths, i + 1,
            IF r.ok
            THEN [values |-> InsertValues(result.values, r.value.values),
                  files_processed |-> Append(result.files_processed, paths[i]),
                  errors |-> result.errors \o r.value.errors]
            ELSE [result EXCEPT
                     !.errors = Append(@, <<Path(paths[i], 0), r.err>>)])

\* load_from_config(config) on file system f; config is its list of paths.
load_from_config(f, config) == ConfigPaths(f, config, 1, EmptyLoadResult)

\* LoadResult::values_count and has_errors.
values_count(result) == Cardinality(DOMAIN result.values)
has_errors(result) == result.errors # <<>>

\* DirectoryConfig::new(): no search path at all.
default_only_no_path == <<>>

\* DirectoryConfig::default_only and add_path.
default_only == <<default_directory>>
add_path(config, path) == Append(config, path)

\* The orders in which a HashMap's values() can be iterated.
Orders(m) ==
    {o \in [1..Cardinality(DOMAIN m) -> DOMAIN m] :
        \A i, j \in DOMAIN o : i # j => o[i] # o[j]}

\* KnownValuesStore::load_from_directory inserting what was read before a failure.
store_load_from_directory_partial(s, f, d) ==
    LET r == load_from_directory(f, d)
        t == TolerantEntries_stops(f[d], d, 1, <<>>, <<>>)
    IN IF r.ok THEN [store |-> InsertAll(s, r.value), result |-> Ok(Len(r.value))]
       ELSE [store |-> InsertAll(s, IF f[d].kind = "dir" /\ t.ok
                                    THEN t.value.values ELSE <<>>),
             result |-> Err(r.err)]

\* KnownValuesStore::load_from_directory counting the files it read.
store_load_from_directory_counts_files(s, f, d) ==
    LET r == load_from_directory(f, d) IN
    IF r.ok
    THEN [store |-> InsertAll(s, r.value),
          result |-> Ok(IF f[d].kind = "dir"
                        THEN Cardinality({i \in DOMAIN f[d].files : IsJson(f[d].files[i])})
                        ELSE 0)]
    ELSE [store |-> s, result |-> Err(r.err)]

\* KnownValuesStore::load_from_directory: the store after, and the result.
store_load_from_directory(s, f, d) ==
    LET r == load_from_directory(f, d) IN
    IF r.ok THEN [store |-> InsertAll(s, r.value), result |-> Ok(Len(r.value))]
    ELSE [store |-> s, result |-> Err(r.err)]

\* KnownValuesStore::load_from_config, the result's values iterated in order o.
store_load_from_config(s, f, config, o) ==
    LET result == load_from_config(f, config) IN
    [store |-> InsertAll(s, [i \in DOMAIN o |-> result.values[o[i]]]),
     result |-> result]

(***************************************************************************)
(* known_values_registry.rs: the table of built-in values, in the order    *)
(* LazyKnownValues::get hands them to KnownValuesStore::new.               *)
(***************************************************************************)
BuiltIns ==
    << 
       KV(1, Some("isA")), KV(2, Some("id")), KV(3, Some("signed")),
       KV(4, Some("note")), KV(5, Some("hasRecipient")), KV(6, Some("sskrShare")),
       KV(7, Some("controller")), KV(8, Some("key")), KV(9, Some("dereferenceVia")),
       KV(10, Some("entity")), KV(11, Some("name")), KV(12, Some("language")),
       KV(13, Some("issuer")), KV(14, Some("holder")), KV(15, Some("salt")),
       KV(16, Some("date")), KV(17, Some("Unknown")), KV(18, Some("version")),
       KV(19, Some("hasSecret")), KV(20, Some("edits")), KV(21, Some("validFrom")),
       KV(22, Some("validUntil")), KV(50, Some("attachment")), KV(51, Some("vendor")),
       KV(52, Some("conformsTo")), KV(60, Some("allow")), KV(61, Some("deny")),
       KV(62, Some("endpoint")), KV(63, Some("delegate")), KV(64, Some("provenance")),
       KV(65, Some("privateKey")), KV(66, Some("service")), KV(67, Some("capability")),
       KV(70, Some("All")), KV(71, Some("Auth")), KV(72, Some("Sign")),
       KV(73, Some("Encrypt")), KV(74, Some("Elide")), KV(75, Some("Issue")),
       KV(76, Some("Access")), KV(80, Some("Delegate")), KV(81, Some("Verify")),
       KV(82, Some("Update")), KV(83, Some("Transfer")), KV(84, Some("Elect")),
       KV(85, Some("Burn")), KV(86, Some("Revoke")), KV(100, Some("body")),
       KV(101, Some("result")), KV(102, Some("error")), KV(103, Some("OK")),
       KV(104, Some("Processing")), KV(105, Some("sender")), KV(106, Some("senderContinuation")),
       KV(107, Some("recipientContinuation")), KV(108, Some("content")), KV(200, Some("Seed")),
       KV(201, Some("PrivateKey")), KV(202, Some("PublicKey")), KV(203, Some("MasterKey")),
       KV(300, Some("asset")), KV(301, Some("BTC")), KV(302, Some("ETH")),
       KV(303, Some("XTZ")), KV(400, Some("network")), KV(401, Some("MainNet")),
       KV(402, Some("TestNet")), KV(500, Some("BIP32Key")), KV(501, Some("chainCode")),
       KV(502, Some("DerivationPath")), KV(503, Some("parent")), KV(504, Some("children")),
       KV(505, Some("parentFingerprint")), KV(506, Some("PSBT")), KV(507, Some("OutputDescriptor")),
       KV(508, Some("outputDescriptor")), KV(600, Some("graph")), KV(601, Some("SourceTargetGraph")),
       KV(602, Some("ParentChildGraph")), KV(603, Some("Digraph")), KV(604, Some("AcyclicGraph")),
       KV(605, Some("Multigraph")), KV(606, Some("Pseudograph")), KV(607, Some("GraphFragment")),
       KV(608, Some("DAG")), KV(609, Some("Tree")), KV(610, Some("Forest")),
       KV(611, Some("CompoundGraph")), KV(612, Some("Hypergraph")), KV(613, Some("Dihypergraph")),
       KV(700, Some("node")), KV(701, Some("edge")), KV(702, Some("source")),
       KV(703, Some("target")), KV(704, Some("parent")), KV(705, Some("child"))
    >>

(***************************************************************************)
(* State                                                                   *)
(***************************************************************************)
VARIABLES
    store,          \* a private KnownValuesStore: the two indices
    last,           \* the last operation on it: name, arguments, store before
    fs,             \* the file system: what each location holds
    loaded,         \* the load call made: name, arguments, store before, result,
                    \* and whether the registry was locked and built by then
    init,           \* KNOWN_VALUES.init: the state of the Once
    data,           \* KNOWN_VALUES.data: the Option<KnownValuesStore> in the Mutex
    data_owner,     \* the thread holding the MutexGuard of KNOWN_VALUES.data
    CUSTOM_CONFIG,  \* the Option<DirectoryConfig> in its Mutex
    CONFIG_LOCKED,  \* the AtomicBool
    pc,             \* each thread's position
    call,           \* each thread's current or last call, and its result
    view,           \* what the guard each thread's last get() returned shows
    hist            \* history: closure runs, accesses, the configuration captured

storevars == <<store, last>>
loadvars == <<fs, loaded>>
regvars == <<init, data, data_owner, CUSTOM_CONFIG, CONFIG_LOCKED, pc, call, view, hist>>
vars == <<store, last, fs, loaded, init, data, data_owner, CUSTOM_CONFIG,
          CONFIG_LOCKED, pc, call, view, hist>>

NoOp == [op |-> "none", kv |-> KV(0, None), xs |-> <<>>, pre |-> EmptyStore,
         raw |-> 0, given |-> FALSE, result |-> None]

NoLoad == [op |-> "none", path |-> "", config |-> <<>>, pre |-> EmptyStore,
           result |-> Ok(0), locked |-> FALSE, built |-> FALSE]

\* A file system in which no location exists.
NoFiles == [d \in Dirs |-> Location("missing", <<>>)]

\* The threads using the shared registry, and the most calls each makes.
Threads == {"t1", "t2"}
NoThread == "none"
MaxCalls == 2

NoCall == [op |-> "none", arg |-> <<>>, began |-> "", after_access |-> FALSE,
           before_access |-> FALSE, result |-> "", late |-> FALSE,
           after_err |-> FALSE]
NoView == [value |-> None, build |-> 0]
NoHist == [builds |-> 0, accessed |-> FALSE, access_begun |-> FALSE,
           pending |-> None, captured |-> None, rejected |-> FALSE,
           n |-> [t \in Threads |-> 0]]

\* The statics as the program starts: Once::new(), Mutex::new(None), false.
RegistryInit ==
    /\ init = "incomplete"
    /\ data = None
    /\ data_owner = NoThread
    /\ CUSTOM_CONFIG = None
    /\ CONFIG_LOCKED = FALSE
    /\ pc = [t \in Threads |-> "idle"]
    /\ call = [t \in Threads |-> NoCall]
    /\ view = [t \in Threads |-> NoView]
    /\ hist = NoHist

(***************************************************************************)
(* The store: KnownValuesStore::new on a collection, then insert calls.    *)
(***************************************************************************)
StoreInit ==
    /\ \E xs \in SeqsUpTo(KnownValues, MaxInit) :
        /\ store = new(xs)
        /\ last = [NoOp EXCEPT !.op = "new", !.xs = xs]
    /\ fs = NoFiles
    /\ loaded = NoLoad
    /\ RegistryInit

Insert(kv) ==
    /\ store' = insert(store, kv)
    /\ last' = [NoOp EXCEPT !.op = "insert", !.kv = kv, !.pre = store]
    /\ UNCHANGED <<loadvars, regvars>>

StoreNext == \E kv \in KnownValues : Insert(kv)

Init == StoreInit

Next == StoreNext

Spec == Init /\ [][Next]_vars

(***************************************************************************)
(* The store's lookups, made on every store new and insert can build.      *)
(***************************************************************************)

\* The codepoints looked up: those identifiers are made with, and one more.
RawValues == Codepoints \cup {0}

\* The Option<&KnownValuesStore> a static lookup is handed.
Given(given) == IF given THEN Some(store) ELSE None

\* KnownValuesStore::known_value_for_raw_value(raw_value, known_values).
KnownValueForRawValue(raw_value, given) ==
    /\ last' = [NoOp EXCEPT !.op = "known_value_for_raw_value", !.raw = raw_value,
                            !.given = given, !.pre = store,
                            !.result = Some(known_value_for_raw_value(raw_value, Given(given)))]
    /\ UNCHANGED <<store, loadvars, regvars>>

\* store.name(known_value).
Name(known_value) ==
    /\ last' = [NoOp EXCEPT !.op = "name", !.kv = known_value, !.given = TRUE,
                            !.pre = store, !.result = Some(name(store, known_value))]
    /\ UNCHANGED <<store, loadvars, regvars>>

\* KnownValuesStore::name_for_known_value(known_value, known_values).
NameForKnownValue(known_value, given) ==
    /\ last' = [NoOp EXCEPT !.op = "name_for_known_value", !.kv = known_value,
                            !.given = given, !.pre = store,
                            !.result = Some(name_for_known_value(known_value, Given(given)))]
    /\ UNCHANGED <<store, loadvars, regvars>>

QueryNext ==
    \/ \E kv \in KnownValues : Insert(kv)
    \/ \E c \in RawValues : \E given \in BOOLEAN : KnownValueForRawValue(c, given)
    \/ \E kv \in KnownValues : Name(kv)
    \/ \E kv \in KnownValues : \E given \in BOOLEAN : NameForKnownValue(kv, given)

SpecQuery == Init /\ [][QueryNext]_vars

(***************************************************************************)
(* KnownValue::name(), on identifiers made directly and on those the       *)
(* lookup by codepoint returns.                                            *)
(***************************************************************************)

\* The codepoints name() is asked for.
NameCodepoints == {0, 1, 2, 9, 10, 42, 100, 704, 999, 1000, 65535}

\* known_value.name().
KnownValueName(known_value) ==
    /\ last' = [NoOp EXCEPT !.op = "KnownValue.name", !.kv = known_value,
                            !.pre = store,
                            !.result = Some(KnownValue_name(known_value))]
    /\ UNCHANGED <<store, loadvars, regvars>>

\* KnownValuesStore::known_value_for_raw_value(raw_value, known_values).name().
NameOfLookup(raw_value, given) ==
    LET known_value == known_value_for_raw_value(raw_value, Given(given)) IN
    /\ last' = [NoOp EXCEPT !.op = "known_value_for_raw_value.name",
                            !.raw = raw_value, !.given = given,
                            !.kv = known_value, !.pre = store,
                            !.result = Some(KnownValue_name(known_value))]
    /\ UNCHANGED <<store, loadvars, regvars>>

NameNext ==
    \/ \E c \in NameCodepoints : \E n \in OptNames : KnownValueName(KV(c, n))
    \/ \E c \in NameCodepoints : \E given \in BOOLEAN : NameOfLookup(c, given)

SpecName == Init /\ [][NameNext]_vars

(***************************************************************************)
(* A store built by insert calls alone, from KnownValuesStore::default().   *)
(***************************************************************************)

\* Most insert calls made on the store built by insertion.
MaxInserts == 3

BuildInit ==
    /\ store = EmptyStore
    /\ last = [NoOp EXCEPT !.op = "default"]
    /\ fs = NoFiles
    /\ loaded = NoLoad
    /\ RegistryInit

\* store.insert(known_value); last.xs is the identifiers inserted so far.
Push(known_value) ==
    /\ Len(last.xs) < MaxInserts
    /\ store' = insert(store, known_value)
    /\ last' = [NoOp EXCEPT !.op = "insert", !.kv = known_value, !.pre = store,
                            !.xs = Append(last.xs, known_value)]
    /\ UNCHANGED <<loadvars, regvars>>

BuildNext == \E kv \in KnownValues : Push(kv)

SpecBuild == BuildInit /\ [][BuildNext]_vars

(***************************************************************************)
(* The loader: one load call on a file system, into a store built before.  *)
(***************************************************************************)

\* The collections the store is built from before the load: empty (default())
\* and [IS_A].
IS_A == BuiltIns[1]
Seeds == {<<>>, <<IS_A>>}

Configs == SeqsUpTo(Dirs, MaxPaths)

LoadInit ==
    /\ fs \in FileSystems
    /\ \E xs \in Seeds :
        /\ store = new(xs)
        /\ last = [NoOp EXCEPT !.op = "new", !.xs = xs]
    /\ loaded = NoLoad
    /\ RegistryInit

\* load_from_directory(path), the free function.
LoadFromDirectory(d) ==
    /\ loaded.op = "none"
    /\ loaded' = [NoLoad EXCEPT !.locked = CONFIG_LOCKED, !.built = data # None,
                     !.op = "load_from_directory", !.path = d,
                     !.pre = store, !.result = load_from_directory(fs, d)]
    /\ UNCHANGED <<store, last, fs, regvars>>

\* load_from_config giving up once the configuration is locked.
LoadFromConfig_frozen(config) ==
    /\ loaded.op = "none"
    /\ loaded' = [NoLoad EXCEPT !.locked = CONFIG_LOCKED, !.built = data # None,
                     !.op = "load_from_config", !.config = config,
                     !.pre = store,
                     !.result = IF CONFIG_LOCKED THEN EmptyLoadResult
                                ELSE load_from_config(fs, config)]
    /\ UNCHANGED <<store, last, fs, regvars>>

\* load_from_config(config), the free function.
LoadFromConfig(config) ==
    /\ loaded.op = "none"
    /\ loaded' = [NoLoad EXCEPT !.locked = CONFIG_LOCKED, !.built = data # None,
                     !.op = "load_from_config", !.config = config,
                     !.pre = store, !.result = load_from_config(fs, config)]
    /\ UNCHANGED <<store, last, fs, regvars>>

\* KnownValuesStore::load_from_directory(path).
StoreLoadFromDirectory(d) ==
    /\ loaded.op = "none"
    /\ LET r == store_load_from_directory(store, fs, d) IN
        /\ store' = r.store
        /\ loaded' = [NoLoad EXCEPT !.locked = CONFIG_LOCKED, !.built = data # None,
                         !.op = "store.load_from_directory", !.path = d,
                         !.pre = store, !.result = r.result]
    /\ UNCHANGED <<last, fs, regvars>>

\* KnownValuesStore::load_from_config(config).
StoreLoadFromConfig(config) ==
    /\ loaded.op = "none"
    /\ \E o \in Orders(load_from_config(fs, config).values) :
        LET r == store_load_from_config(store, fs, config, o) IN
        /\ store' = r.store
        /\ loaded' = [NoLoad EXCEPT !.locked = CONFIG_LOCKED, !.built = data # None,
                         !.op = "store.load_from_config",
                         !.config = config, !.pre = store, !.result = r.result]
    /\ UNCHANGED <<last, fs, regvars>>

LoadNext ==
    \/ \E d \in Dirs : LoadFromDirectory(d)
    \/ \E config \in Configs : LoadFromConfig(config)
    \/ \E d \in Dirs : StoreLoadFromDirectory(d)
    \/ \E config \in Configs : StoreLoadFromConfig(config)

SpecLoad == LoadInit /\ [][LoadNext]_vars

(***************************************************************************)
(* The loads on registry files whose entries name the identifier under     *)
(* "canonical_name" or under "name", as the files of                       *)
(* tests/directory_loading.rs do.                                          *)
(***************************************************************************)

\* Files of the form {"entries": [{"codepoint": c, "name": n}]}.
NameKeyedFiles ==
    {File("json", "ok", <<e>>) : e \in [codepoint : Codepoints, name : Names]}

\* d1 lists files of either form; the default directory does not exist.
SchemaFileSystems ==
    {[d \in Dirs |-> IF d = "d1" THEN Location("dir", files)
                     ELSE Location("missing", <<>>)] :
        files \in SeqsUpTo(NameKeyedFiles \cup RegistryFiles, MaxFiles)}

SchemaInit ==
    /\ fs \in SchemaFileSystems
    /\ \E xs \in Seeds :
        /\ store = new(xs)
        /\ last = [NoOp EXCEPT !.op = "new", !.xs = xs]
    /\ loaded = NoLoad
    /\ RegistryInit

SpecSchema == SchemaInit /\ [][LoadNext]_vars

(***************************************************************************)
(* The shared registry: threads calling KNOWN_VALUES.get(),                *)
(* set_directory_config and add_search_paths (known_values_registry.rs,    *)
(* directory_loader.rs).  A step is one access to the shared statics.      *)
(***************************************************************************)

\* The configurations set_directory_config is called with, and the path lists
\* add_search_paths is called with.
SetArgs == {<<"d1">>, <<>>}
AddArgs == {<<"d1">>}

\* The default directory holding a registry file that renames codepoint 1.
OverlayFiles ==
    [NoFiles EXCEPT ![default_directory] =
        Location("dir",
            <<File("json", "ok", <<[codepoint |-> 1, canonical_name |-> "x"]>>)>>)]

\* Once::call_once without the exclusion of a closure that is running.
call_once_no_exclusion(state) ==
    IF state = "complete" THEN "skip" ELSE "run"

\* Once::call_once running the closure again once it is complete.
call_once_reruns(state) ==
    IF state = "running" THEN "wait" ELSE "run"

\* Once::call_once not holding back a thread that finds the closure running.
call_once_no_wait(state) ==
    IF state = "incomplete" THEN "run" ELSE "skip"

\* Once::call_once holding back every thread that does not run the closure.
call_once_waits_forever(state) ==
    IF state = "incomplete" THEN "run" ELSE "wait"

\* Once::call_once on the Once's state: run the closure, wait for the thread
\* running it, or skip it.
call_once(state) ==
    IF state = "incomplete" THEN "run"
    ELSE IF state = "running" THEN "wait"
    ELSE "skip"

\* The store the closure of LazyKnownValues::get builds.
closure_store == new(BuiltIns)

\* A thread starts a call.
Begin(t, op, arg, to) ==
    /\ pc[t] = "idle"
    /\ hist.n[t] < MaxCalls
    /\ pc' = [pc EXCEPT ![t] = to]
    /\ call' = [call EXCEPT ![t] =
                   [NoCall EXCEPT !.op = op, !.arg = arg, !.began = init,
                                  !.after_access = hist.accessed,
                                  !.after_err = hist.rejected]]
    /\ hist' = [hist EXCEPT !.n[t] = @ + 1,
                            !.access_begun = @ \/ op = "get"]

\* KNOWN_VALUES.get() is called.
CallGet(t) ==
    /\ Begin(t, "get", <<>>, "call_once")
    /\ UNCHANGED <<init, data, data_owner, CUSTOM_CONFIG, CONFIG_LOCKED, view, storevars, loadvars>>

\* self.init.call_once(..): the first thread in runs the closure, a thread that
\* finds it running waits, one that finds it complete goes on.
CallOnce(t) ==
    /\ pc[t] = "call_once"
    /\ call_once(init) # "wait"
    /\ IF call_once(init) = "run"
       THEN /\ init' = "running"
            /\ pc' = [pc EXCEPT ![t] = "closure"]
       ELSE /\ init' = init
            /\ pc' = [pc EXCEPT ![t] = "lock"]
    /\ UNCHANGED <<data, data_owner, CUSTOM_CONFIG, CONFIG_LOCKED, call, view, hist, storevars, loadvars>>

\* The closure: KnownValuesStore::new([IS_A, ..]), and
\* *self.data.lock().unwrap() = Some(m).
Closure(t) ==
    /\ pc[t] = "closure"
    /\ data_owner = NoThread
    /\ data' = Some(closure_store)
    /\ hist' = [hist EXCEPT !.builds = @ + 1, !.pending = CUSTOM_CONFIG]
    /\ pc' = [pc EXCEPT ![t] = "once_done"]
    /\ UNCHANGED <<init, data_owner, CUSTOM_CONFIG, CONFIG_LOCKED, call, view, storevars, loadvars>>

\* call_once returns: the Once is complete.
OnceDone(t) ==
    /\ pc[t] = "once_done"
    /\ init' = "complete"
    /\ pc' = [pc EXCEPT ![t] = "lock"]
    /\ UNCHANGED <<data, data_owner, CUSTOM_CONFIG, CONFIG_LOCKED, call, view, hist, storevars, loadvars>>

\* self.data.lock().unwrap(): get() returns the guard.
Lock(t) ==
    /\ pc[t] = "lock"
    /\ data_owner = NoThread
    /\ data_owner' = t
    /\ view' = [view EXCEPT ![t] = [value |-> data, build |-> hist.builds]]
    /\ call' = [call EXCEPT ![t].result = "guard"]
    /\ hist' = [hist EXCEPT !.accessed = TRUE]
    /\ pc' = [pc EXCEPT ![t] = "idle"]
    /\ UNCHANGED <<init, data, CUSTOM_CONFIG, CONFIG_LOCKED, storevars, loadvars>>

\* The caller drops the guard.
DropGuard(t) ==
    /\ pc[t] = "idle"
    /\ data_owner = t
    /\ data_owner' = NoThread
    /\ UNCHANGED <<init, data, CUSTOM_CONFIG, CONFIG_LOCKED, pc, call, view, hist, storevars, loadvars>>

\* set_directory_config(config) is called.
CallSet(t, config) ==
    /\ Begin(t, "set_directory_config", config, "check")
    /\ UNCHANGED <<init, data, data_owner, CUSTOM_CONFIG, CONFIG_LOCKED, view, storevars, loadvars>>

\* add_search_paths(paths) is called.
CallAdd(t, paths) ==
    /\ Begin(t, "add_search_paths", paths, "check")
    /\ UNCHANGED <<init, data, data_owner, CUSTOM_CONFIG, CONFIG_LOCKED, view, storevars, loadvars>>

\* The check dropping the pending configuration when it rejects the call.
Check_clears(t) ==
    /\ pc[t] = "check"
    /\ IF CONFIG_LOCKED
       THEN /\ call' = [call EXCEPT ![t].result = "Err",
                                    ![t].before_access = ~hist.access_begun]
            /\ pc' = [pc EXCEPT ![t] = "idle"]
            /\ hist' = [hist EXCEPT !.rejected = TRUE]
            /\ CUSTOM_CONFIG' = None
       ELSE /\ call' = call
            /\ pc' = [pc EXCEPT ![t] = "write"]
            /\ hist' = hist
            /\ CUSTOM_CONFIG' = CUSTOM_CONFIG
    /\ UNCHANGED <<init, data, data_owner, CONFIG_LOCKED, view, storevars, loadvars>>

\* if CONFIG_LOCKED.load(SeqCst) { return Err(AlreadyInitialized) }
Check(t) ==
    /\ pc[t] = "check"
    /\ IF CONFIG_LOCKED
       THEN /\ call' = [call EXCEPT ![t].result = "Err",
                                    ![t].before_access = ~hist.access_begun]
            /\ pc' = [pc EXCEPT ![t] = "idle"]
            /\ hist' = [hist EXCEPT !.rejected = TRUE]
       ELSE /\ call' = call
            /\ pc' = [pc EXCEPT ![t] = "write"]
            /\ hist' = hist
    /\ UNCHANGED <<init, data, data_owner, CUSTOM_CONFIG, CONFIG_LOCKED, view, storevars, loadvars>>

\* add_search_paths under the lock with the new paths put first.
added_prepends(custom, paths) ==
    paths \o (IF custom = None THEN default_only ELSE custom[1])

\* add_search_paths under the lock: get_or_insert_with(default_only), add_path
\* for each path.
added(custom, paths) ==
    (IF custom = None THEN default_only ELSE custom[1]) \o paths

\* The rest of either call, under CUSTOM_CONFIG.lock(): the write, and Ok(()).
Write(t) ==
    /\ pc[t] = "write"
    /\ CUSTOM_CONFIG' =
           IF call[t].op = "set_directory_config" THEN Some(call[t].arg)
           ELSE Some(added(CUSTOM_CONFIG, call[t].arg))
    /\ call' = [call EXCEPT ![t].result = "Ok",
                            ![t].before_access = ~hist.access_begun,
                            ![t].late = hist.captured # None]
    /\ pc' = [pc EXCEPT ![t] = "idle"]
    /\ UNCHANGED <<init, data, data_owner, CONFIG_LOCKED, view, hist, storevars, loadvars>>

\* get_and_lock_config() is called (pub(crate): the step of materialization
\* that locks and captures the configuration; it is made once).
CallGetAndLock(t) ==
    /\ \A u \in Threads : call[u].op # "get_and_lock_config"
    /\ Begin(t, "get_and_lock_config", <<>>, "store_locked")
    /\ UNCHANGED <<init, data, data_owner, CUSTOM_CONFIG, CONFIG_LOCKED, view, storevars, loadvars>>

\* CONFIG_LOCKED.store(true, SeqCst)
StoreLocked(t) ==
    /\ pc[t] = "store_locked"
    /\ CONFIG_LOCKED' = TRUE
    /\ pc' = [pc EXCEPT ![t] = "take"]
    /\ UNCHANGED <<init, data, data_owner, CUSTOM_CONFIG, call, view, hist, storevars, loadvars>>

\* The capture clearing the freeze flag once it has the configuration.
Take_unlocks(t) ==
    /\ pc[t] = "take"
    /\ hist' = [hist EXCEPT !.captured =
                   Some(IF CUSTOM_CONFIG = None THEN default_only
                        ELSE CUSTOM_CONFIG[1])]
    /\ CUSTOM_CONFIG' = None
    /\ CONFIG_LOCKED' = FALSE
    /\ call' = [call EXCEPT ![t].result = "config"]
    /\ pc' = [pc EXCEPT ![t] = "idle"]
    /\ UNCHANGED <<init, data, data_owner, view, storevars, loadvars>>

\* CUSTOM_CONFIG.lock().unwrap().take().unwrap_or_else(default_only)
Take(t) ==
    /\ pc[t] = "take"
    /\ hist' = [hist EXCEPT !.captured =
                   Some(IF CUSTOM_CONFIG = None THEN default_only
                        ELSE CUSTOM_CONFIG[1])]
    /\ CUSTOM_CONFIG' = None
    /\ call' = [call EXCEPT ![t].result = "config"]
    /\ pc' = [pc EXCEPT ![t] = "idle"]
    /\ UNCHANGED <<init, data, data_owner, CONFIG_LOCKED, view, storevars, loadvars>>

\* The program as it starts, with or without registry files in the default
\* directory.
RegInit ==
    /\ store = EmptyStore
    /\ last = NoOp
    /\ fs \in {NoFiles, OverlayFiles}
    /\ loaded = NoLoad
    /\ RegistryInit

RegNext ==
    \/ \E t \in Threads : CallGet(t)
    \/ \E t \in Threads : CallOnce(t)
    \/ \E t \in Threads : Closure(t)
    \/ \E t \in Threads : OnceDone(t)
    \/ \E t \in Threads : Lock(t)
    \/ \E t \in Threads : DropGuard(t)
    \/ \E t \in Threads : \E config \in SetArgs : CallSet(t, config)
    \/ \E t \in Threads : \E paths \in AddArgs : CallAdd(t, paths)
    \/ \E t \in Threads : Check(t)
    \/ \E t \in Threads : Write(t)

\* The public operations on the shared registry, interleaved.
SpecReg == RegInit /\ [][RegNext]_vars

GetNext ==
    \/ \E t \in Threads : CallGet(t)
    \/ \E t \in Threads : CallOnce(t)
    \/ \E t \in Threads : Closure(t)
    \/ \E t \in Threads : OnceDone(t)
    \/ \E t \in Threads : Lock(t)
    \/ \E t \in Threads : DropGuard(t)

\* KNOWN_VALUES.get() called by the threads, under fair scheduling: a thread
\* that can take its next step takes it, a thread for which the data mutex is
\* free again and again acquires it, and a thread holding a guard and not in
\* a call drops it.
GetFairness ==
    \A t \in Threads :
        /\ WF_vars(CallOnce(t))
        /\ WF_vars(Closure(t))
        /\ WF_vars(OnceDone(t))
        /\ SF_vars(Lock(t))
        /\ WF_vars(DropGuard(t))

SpecGetFair == RegInit /\ [][GetNext]_vars /\ GetFairness

CfgNext ==
    \/ \E t \in Threads : \E config \in SetArgs : CallSet(t, config)
    \/ \E t \in Threads : \E paths \in AddArgs : CallAdd(t, paths)
    \/ \E t \in Threads : Check(t)
    \/ \E t \in Threads : Write(t)
    \/ \E t \in Threads : CallGetAndLock(t)
    \/ \E t \in Threads : StoreLocked(t)
    \/ \E t \in Threads : Take(t)

\* The configuration calls interleaved with get_and_lock_config.
SpecCfg == RegInit /\ [][CfgNext]_vars

\* The path lists add_search_paths is called with before any access: none,
\* one, and two paths.
PendingAddArgs == {<<>>, <<"d1">>, <<"d1", default_directory>>}

PendingNext ==
    \/ \E t \in Threads : \E config \in SetArgs : CallSet(t, config)
    \/ \E t \in Threads : \E paths \in PendingAddArgs : CallAdd(t, paths)
    \/ \E t \in Threads : Check(t)
    \/ \E t \in Threads : Write(t)

\* The configuration calls made before the registry is accessed.
SpecPending == RegInit /\ [][PendingNext]_vars

\* The configurations the standalone loads are called with while the registry
\* is in use.
StandaloneConfigs == {<<default_directory>>, <<"d1", default_directory>>}

\* The thread using the registry while the loads are made.
User == "t1"

StandaloneNext ==
    \/ CallGet(User)
    \/ CallOnce(User)
    \/ Closure(User)
    \/ OnceDone(User)
    \/ Lock(User)
    \/ DropGuard(User)
    \/ \E config \in SetArgs : CallSet(User, config)
    \/ Check(User)
    \/ Write(User)
    \/ CallGetAndLock(User)
    \/ StoreLocked(User)
    \/ Take(User)
    \/ \E d \in Dirs : LoadFromDirectory(d)
    \/ \E config \in StandaloneConfigs : LoadFromConfig(config)
    \/ \E d \in Dirs : StoreLoadFromDirectory(d)
    \/ \E config \in StandaloneConfigs : StoreLoadFromConfig(config)

\* One standalone load made at any point of the registry's life.
SpecStandalone == RegInit /\ [][StandaloneNext]_vars

(***************************************************************************)
(* Claims about the store (checked under Spec)                             *)
(***************************************************************************)

\* C1: every identifier of the codepoint index that has an assigned name n is
\* found under n in the name index, and known_value_named(n) has its codepoint,
\* also when identifiers with different codepoints carry the same name.
C1_NamedCodepointsResolve ==
    \A c \in DOMAIN store.known_values_by_raw_value :
        LET id == store.known_values_by_raw_value[c] IN
        id.assigned_name # None =>
            /\ id.assigned_name[1] \in DOMAIN store.known_values_by_assigned_name
            /\ known_value_named(store, id.assigned_name[1]) # None
            /\ known_value_named(store, id.assigned_name[1])[1].value = c

\* C2: the name index has no dangling entry: each entry n -> id of the name index
\* has the codepoint index mapping id's codepoint to an identifier named n.
C2_NoDanglingName ==
    \A n \in DOMAIN store.known_values_by_assigned_name :
        LET id == store.known_values_by_assigned_name[n] IN
        /\ id.value \in DOMAIN store.known_values_by_raw_value
        /\ store.known_values_by_raw_value[id.value].assigned_name = Some(n)

\* An insert has replaced a named identifier by one of another name (or none)
\* and the name index still has entries to check.
C2_Witness ==
    /\ last.op = "insert"
    /\ last.kv.value \in DOMAIN last.pre.known_values_by_raw_value
    /\ last.pre.known_values_by_raw_value[last.kv.value].assigned_name # None
    /\ last.pre.known_values_by_raw_value[last.kv.value].assigned_name
           # last.kv.assigned_name
    /\ DOMAIN store.known_values_by_assigned_name # {}

\* The last operation inserted B = last.kv over A, the identifier the store held
\* for B's codepoint, and A had an assigned name.
Overrode ==
    /\ last.op = "insert"
    /\ last.kv.value \in DOMAIN last.pre.known_values_by_raw_value
    /\ last.pre.known_values_by_raw_value[last.kv.value].assigned_name # None

\* C3: after B is inserted over A (same codepoint c, A named a): a no longer
\* resolves when B's name differs from a, B's name (if any) resolves to B, and
\* the lookup of c returns B.
C3_InsertOverride ==
    Overrode =>
        LET B == last.kv
            a == last.pre.known_values_by_raw_value[B.value].assigned_name[1]
        IN /\ B.assigned_name # Some(a) => known_value_named(store, a) = None
           /\ B.assigned_name # None =>
                  known_value_named(store, B.assigned_name[1]) = Some(B)
           /\ known_value_for_raw_value(B.value, Some(store)) = B

\* B with another name replaced A, and separately B without a name replaced A.
C3_Witness ==
    /\ Overrode
    /\ last.kv.assigned_name = None
    /\ known_value_named(store,
           last.pre.known_values_by_raw_value[last.kv.value].assigned_name[1]) = None

\* C18: right after insert(kv), from whatever store, lookup of kv's raw value
\* returns kv and, when kv has a name, known_value_named(kv's name) returns
\* kv: kv has taken the place of the identifier that held its raw value and
\* of the one that held its name.
C18_InsertReplaces ==
    last.op = "insert" =>
        /\ last.kv.value \in DOMAIN store.known_values_by_raw_value
        /\ known_value_for_raw_value(last.kv.value, Some(store)) = last.kv
        /\ last.kv.assigned_name # None =>
               known_value_named(store, last.kv.assigned_name[1]) = Some(last.kv)

\* kv was inserted into a store that held another identifier under kv's raw
\* value and a third, of another codepoint, under kv's name.
C18_Witness ==
    /\ last.op = "insert"
    /\ last.kv.assigned_name # None
    /\ last.kv.value \in DOMAIN last.pre.known_values_by_raw_value
    /\ last.pre.known_values_by_raw_value[last.kv.value] # last.kv
    /\ known_value_named(last.pre, last.kv.assigned_name[1]) # None
    /\ known_value_named(last.pre, last.kv.assigned_name[1])[1].value # last.kv.value
    /\ known_value_named(store, last.kv.assigned_name[1]) = Some(last.kv)

(***************************************************************************)
(* Claims about the store's lookups (checked under SpecQuery)              *)
(***************************************************************************)

\* C15: known_value_for_raw_value(c, known_values) returns the identifier the
\* codepoint index holds for c when a store is given and its index contains
\* c, and the nameless identifier with codepoint c when c is absent or no
\* store is given; it returns an identifier for every c.
C15_LookupByCodepointIsTotal ==
    last.op = "known_value_for_raw_value" =>
        /\ last.result # None
        /\ LET c == last.raw
               by_raw == store.known_values_by_raw_value
           IN IF last.given /\ c \in DOMAIN by_raw
              THEN last.result[1] = by_raw[c]
              ELSE last.result[1] = [value |-> c, assigned_name |-> None]

\* A codepoint the store holds with a name was looked up in the store.
C15_Witness ==
    /\ last.op = "known_value_for_raw_value"
    /\ last.given
    /\ last.raw \in DOMAIN store.known_values_by_raw_value
    /\ last.result[1].assigned_name # None

\* C16: store.name(kv) and name_for_known_value(kv, known_values) return the
\* name the store's codepoint index has for kv's codepoint when a store is
\* given and its entry for that codepoint is named, whatever name kv carries;
\* otherwise they return kv's own name(): its assigned name, or its codepoint
\* in decimal.
C16_DisplayNamePrecedence ==
    last.op \in {"name", "name_for_known_value"} =>
        LET kv == last.kv
            by_raw == store.known_values_by_raw_value
            in_store == /\ last.given
                        /\ kv.value \in DOMAIN by_raw
                        /\ by_raw[kv.value].assigned_name # None
        IN /\ in_store => last.result = by_raw[kv.value].assigned_name
           /\ ~in_store /\ kv.assigned_name # None => last.result = kv.assigned_name
           /\ ~in_store /\ kv.assigned_name = None =>
                  last.result = Some(IF kv.value = 1 THEN "1" ELSE "2")

\* store.name(kv) was asked for a kv that carries a name other than the one
\* the store has for its codepoint, and answered with the store's.
C16_Witness ==
    /\ last.op = "name"
    /\ last.kv.value \in DOMAIN store.known_values_by_raw_value
    /\ last.kv.assigned_name # None
    /\ store.known_values_by_raw_value[last.kv.value].assigned_name
           \notin {None, last.kv.assigned_name}
    /\ last.result = store.known_values_by_raw_value[last.kv.value].assigned_name

(***************************************************************************)
(* Claims about KnownValue::name() (checked under SpecName)                *)
(***************************************************************************)

\* The base-10 string of each codepoint name() is asked for.
Base10 ==
    [c \in NameCodepoints |->
        CASE c = 0 -> "0" [] c = 1 -> "1" [] c = 2 -> "2" [] c = 9 -> "9"
          [] c = 10 -> "10" [] c = 42 -> "42" [] c = 100 -> "100"
          [] c = 704 -> "704" [] c = 999 -> "999" [] c = 1000 -> "1000"
          [] c = 65535 -> "65535"]

\* C25: name() of an identifier with no assigned name is the base-10 string
\* of its codepoint, also for the nameless identifier
\* known_value_for_raw_value returns for a codepoint it does not find, and
\* name() of an identifier with an assigned name is that name.
C25_NameFallback ==
    last.op \in {"KnownValue.name", "known_value_for_raw_value.name"} =>
        /\ last.kv.assigned_name = None => last.result = Some(Base10[last.kv.value])
        /\ last.kv.assigned_name # None => last.result = last.kv.assigned_name
        /\ (last.op = "known_value_for_raw_value.name"
            /\ ~(last.given /\ last.raw \in DOMAIN store.known_values_by_raw_value))
              => last.result = Some(Base10[last.raw])

\* The identifier known_value_for_raw_value(999, Some(store)) returned has
\* the name "999".
C25_Witness ==
    /\ last.op = "known_value_for_raw_value.name"
    /\ last.raw = 999
    /\ last.given
    /\ last.result = Some("999")

(***************************************************************************)
(* Claims about construction (checked under SpecBuild)                     *)
(***************************************************************************)

\* C17: an empty store after insert(x) for each x of xs in order has the same
\* codepoint index and name index as KnownValuesStore::new(xs), and holds for
\* each codepoint the last element of xs that has it.
C17_NewIsSequentialInsert ==
    /\ store.known_values_by_raw_value = new(last.xs).known_values_by_raw_value
    /\ store.known_values_by_assigned_name = new(last.xs).known_values_by_assigned_name
    /\ \A i \in DOMAIN last.xs :
        (\A j \in DOMAIN last.xs : j > i => last.xs[j].value # last.xs[i].value)
            => new(last.xs).known_values_by_raw_value[last.xs[i].value] = last.xs[i]

\* Two identifiers with one codepoint and different names were inserted, one
\* after the other.
C17_Witness ==
    /\ Len(last.xs) = 2
    /\ last.xs[1].value = last.xs[2].value
    /\ last.xs[1].assigned_name # None
    /\ last.xs[2].assigned_name # None
    /\ last.xs[1].assigned_name # last.xs[2].assigned_name
    /\ store.known_values_by_raw_value[last.xs[1].value] = last.xs[2]

\* The codepoints whose identifier in the codepoint index has assigned name n.
Holders(n) ==
    {c \in DOMAIN store.known_values_by_raw_value :
        store.known_values_by_raw_value[c].assigned_name = Some(n)}

\* C29: after any sequence of insert calls, a name that exactly one codepoint
\* of the codepoint index holds is resolved by known_value_named to that
\* codepoint's identifier.
C29_LiveNamesResolvable ==
    \A n \in Names : \A c \in Holders(n) :
        Holders(n) = {c} =>
            known_value_named(store, n) = Some(store.known_values_by_raw_value[c])

(***************************************************************************)
(* Claims about the loader (checked under SpecLoad)                        *)
(***************************************************************************)

Range(q) == {q[i] : i \in DOMAIN q}

\* The load made was load_from_config, free or through the store.
ConfigLoaded == loaded.op \in {"load_from_config", "store.load_from_config"}

\* read_dir lists the location and yields every entry.
Listable(loc) ==
    loc.kind = "dir" /\ \A i \in DOMAIN loc.files : loc.files[i].status # "entry_error"

WellFormed(f) == IsJson(f) /\ f.status = "ok"
Malformed(f) == IsJson(f) /\ f.status = "malformed"

\* The identifiers the well-formed files of location d define.
Defined(d) ==
    IF fs[d].kind # "dir" THEN {}
    ELSE UNION {Range(EntryValues(fs[d].files[i].entries)) :
                    i \in {j \in DOMAIN fs[d].files : WellFormed(fs[d].files[j])}}

\* The names location d gives codepoint k.
NamesFor(d, k) == {v.assigned_name[1] : v \in {w \in Defined(d) : w.value = k}}

\* Locations L1 and L2, both listed in full, define codepoint K with one name
\* each, n1 and n2, that differ, and a store has loaded the configuration
\* [L1, L2] through KnownValuesStore::load_from_config.
LastLocationCase(K, L1, L2, n1, n2) ==
    /\ loaded.op = "store.load_from_config"
    /\ loaded.config = <<L1, L2>>
    /\ Listable(fs[L1]) /\ Listable(fs[L2])
    /\ NamesFor(L1, K) = {n1}
    /\ NamesFor(L2, K) = {n2}
    /\ n1 # n2

\* The codepoints other than K that carry name n, in the store before the load
\* or among the merged values.
OthersCarrying(K, n) ==
    {c \in Codepoints \ {K} :
        \/ /\ c \in DOMAIN loaded.pre.known_values_by_raw_value
           /\ loaded.pre.known_values_by_raw_value[c].assigned_name = Some(n)
        \/ /\ c \in DOMAIN loaded.result.values
           /\ loaded.result.values[c].assigned_name = Some(n)}

C10_AbsenceIsNotAnError ==
    /\ (loaded.op = "load_from_directory" /\ fs[loaded.path].kind \in {"missing", "file"})
           => loaded.result = Ok(<<>>)
    /\ (loaded.op = "store.load_from_directory"
        /\ fs[loaded.path].kind \in {"missing", "file"})
           => loaded.result = Ok(0) /\ store = loaded.pre
    /\ ConfigLoaded =>
           LET present == SelectSeq(loaded.config,
                              LAMBDA d : fs[d].kind \notin {"missing", "file"})
               without == load_from_config(fs, present)
           IN /\ loaded.result.values = without.values
              /\ loaded.result.errors = without.errors

\* A configuration naming a regular file and then a directory with a value was
\* loaded.
C10_Witness ==
    /\ loaded.op = "load_from_config"
    /\ Len(loaded.config) = 2
    /\ fs[loaded.config[1]].kind = "file"
    /\ fs[loaded.config[2]].kind = "dir"
    /\ values_count(loaded.result) = 1
    /\ ~has_errors(loaded.result)

\* The errors of the result that are keyed by path p.
ErrorsAt(p) ==
    {k \in DOMAIN loaded.result.errors : loaded.result.errors[k][1] = p}

\* The positions of the configuration that name d.
Occurrences(d) == {k \in DOMAIN loaded.config : loaded.config[k] = d}

\* C9: in load_from_config, for a configured location whose listing succeeds,
\* each malformed .json file has one error keyed by its path (per time the
\* location is configured), the errors are then non-empty, and every entry of a
\* well-formed file has its codepoint in values (keyed by codepoint: with the
\* entry's own identifier when nothing else configured defines that codepoint).
C9_TolerantPartialSuccess ==
    ConfigLoaded =>
        \A d \in Range(loaded.config) :
            Listable(fs[d]) =>
                \A i \in DOMAIN fs[d].files :
                    LET f == fs[d].files[i] IN
                    /\ Malformed(f) =>
                          /\ Cardinality(ErrorsAt(Path(d, i))) = Cardinality(Occurrences(d))
                          /\ \A k \in ErrorsAt(Path(d, i)) :
                                 loaded.result.errors[k][2] = Json(Path(d, i))
                          /\ has_errors(loaded.result)
                    /\ WellFormed(f) =>
                          \A v \in Range(EntryValues(f.entries)) :
                              /\ v.value \in DOMAIN loaded.result.values
                              /\ loaded.result.values[v.value] \in
                                     UNION {Defined(e) : e \in Range(loaded.config)}
                              /\ (\A e \in Range(loaded.config) :
                                      \A w \in Defined(e) : w.value = v.value => w = v)
                                     => loaded.result.values[v.value] = v

\* One location was loaded whose listing has a malformed file first and a
\* well-formed file with an entry after it; the entry is in values and the
\* malformed file in errors.
C9_Witness ==
    /\ loaded.op = "load_from_config"
    /\ Len(loaded.config) = 1
    /\ LET loc == fs[loaded.config[1]] IN
        /\ loc.kind = "dir"
        /\ Len(loc.files) = 2
        /\ Malformed(loc.files[1])
        /\ WellFormed(loc.files[2])
        /\ Len(loc.files[2].entries) = 1
    /\ values_count(loaded.result) = 1
    /\ Len(loaded.result.errors) = 1

\* The load made was the strict load of one location, free or through the store.
StrictLoaded == loaded.op \in {"load_from_directory", "store.load_from_directory"}

\* The entries of location loc at which its strict load fails: read_dir yields
\* an error, or a .json file cannot be read or parsed.
Failing(loc) ==
    {i \in DOMAIN loc.files :
        \/ loc.files[i].status = "entry_error"
        \/ IsJson(loc.files[i]) /\ loc.files[i].status \in {"unreadable", "malformed"}}

Structural(loc) == loc.kind = "denied" \/ (loc.kind = "dir" /\ ~Listable(loc))

\* C19: in load_from_config, a configured location whose tolerant load fails
\* as a whole has one error keyed by the location's own path (per time it is
\* configured) and is not among files_processed, and every location
\* configured after it whose load does not fail is among files_processed with
\* the codepoints it defines in values, each with the identifier of that
\* location or of a later one.
C19_LocationFailuresIsolated ==
    ConfigLoaded =>
        \A k \in DOMAIN loaded.config :
            LET d == loaded.config[k] IN
            Structural(fs[d]) =>
                /\ Cardinality(ErrorsAt(Path(d, 0))) = Cardinality(Occurrences(d))
                /\ \A e \in ErrorsAt(Path(d, 0)) : loaded.result.errors[e][2] = Io
                /\ d \notin Range(loaded.result.files_processed)
                /\ \A j \in DOMAIN loaded.config :
                    (j > k /\ ~Structural(fs[loaded.config[j]])) =>
                        /\ loaded.config[j] \in Range(loaded.result.files_processed)
                        /\ \A v \in Defined(loaded.config[j]) :
                            /\ v.value \in DOMAIN loaded.result.values
                            /\ loaded.result.values[v.value] \in
                                   UNION {Defined(loaded.config[m]) :
                                            m \in {n \in DOMAIN loaded.config :
                                                     /\ n >= j
                                                     /\ ~Structural(fs[loaded.config[n]])}}

\* A location read_dir cannot list was configured before a directory with a
\* well-formed file: one error, for the first, and the value of the second.
C19_Witness ==
    /\ loaded.op = "load_from_config"
    /\ Len(loaded.config) = 2
    /\ Structural(fs[loaded.config[1]])
    /\ Defined(loaded.config[2]) # {}
    /\ ~Structural(fs[loaded.config[2]])
    /\ Len(loaded.result.errors) = 1
    /\ loaded.result.errors[1] = <<Path(loaded.config[1], 0), Io>>
    /\ values_count(loaded.result) = 1
    /\ loaded.result.files_processed = <<loaded.config[2]>>

\* The files of location d the tolerant load parses: its well-formed .json
\* files up to the first entry read_dir fails on.
ParsedFiles(d) ==
    IF fs[d].kind # "dir" THEN {}
    ELSE {i \in DOMAIN fs[d].files :
            /\ WellFormed(fs[d].files[i])
            /\ \A j \in 1..i : fs[d].files[j].status # "entry_error"}

\* The identifiers those files define.
Parsed(d) == UNION {Range(EntryValues(fs[d].files[i].entries)) : i \in ParsedFiles(d)}

\* The codepoints defined by the parsed files of the configured locations.
ParsedCodepoints == {v.value : v \in UNION {Parsed(d) : d \in Range(loaded.config)}}

\* C22: after load_from_config, values has exactly the codepoints defined by
\* the successfully parsed files of the configured locations, each with an
\* identifier of the last configured location that defines it, and
\* values_count() is the number of those codepoints.
C22_RightBiasedUnion ==
    ConfigLoaded =>
        /\ DOMAIN loaded.result.values = ParsedCodepoints
        /\ values_count(loaded.result) = Cardinality(ParsedCodepoints)
        /\ \A c \in ParsedCodepoints :
            LET defining == {k \in DOMAIN loaded.config :
                                \E v \in Parsed(loaded.config[k]) : v.value = c}
                k_last == CHOOSE k \in defining : \A m \in defining : m <= k
            IN /\ loaded.result.values[c].value = c
               /\ loaded.result.values[c] \in Parsed(loaded.config[k_last])

\* The entries of the .json files of location d, as <<file, entry>> positions
\* in the order they are read.
EntryPositions(d) ==
    IF fs[d].kind # "dir" THEN {}
    ELSE UNION {{<<i, e>> : e \in DOMAIN fs[d].files[i].entries} :
                    i \in {j \in DOMAIN fs[d].files : IsJson(fs[d].files[j])}}

\* The identifier made of the entry at position p of location d.
EntryAt(d, p) == EntryValues(fs[d].files[p[1]].entries)[p[2]]

\* Position q is read after position p.
After(p, q) == q[1] > p[1] \/ (q[1] = p[1] /\ q[2] > p[2])

\* The store has loaded location loaded.path with success.
StoreLoadedOk == loaded.op = "store.load_from_directory" /\ loaded.result.ok

\* The identifiers the store held before the load.
Before == Range(loaded.pre.known_values_by_raw_value)

CarriedElsewhere(d, n, c) ==
    \/ \E w \in Before : w.value # c /\ w.assigned_name = Some(n)
    \/ \E p \in EntryPositions(d) :
          EntryAt(d, p).value # c /\ EntryAt(d, p).assigned_name = Some(n)

Kept(loc) ==
    SelectSeq([i \in 1..Len(loc.files) |-> i],
              LAMBDA i : loc.files[i].status = "entry_error"
                         \/ loc.files[i].ext = "json")

\* The file system with every entry of an extension other than json removed.
Stripped(f) ==
    [d \in Dirs |->
        [f[d] EXCEPT !.files = [k \in 1..Len(Kept(f[d])) |-> f[d].files[Kept(f[d])[k]]]]]

\* A path and an error of the stripped file system, as named in f: entries
\* keep their names when others are removed, positions do not.
Unstripped(f, p) ==
    IF p.file = 0 THEN p ELSE Path(p.dir, Kept(f[p.dir])[p.file])
UnstrippedErr(f, e) == [e EXCEPT !.file = Unstripped(f, @)]
UnstrippedResult(f, r) == IF r.ok THEN r ELSE Err(UnstrippedErr(f, r.err))
UnstrippedLoadResult(f, r) ==
    [r EXCEPT !.errors = [i \in DOMAIN @ |->
                             <<Unstripped(f, @[i][1]), UnstrippedErr(f, @[i][2])>>]]

\* The entries of f the errors of a LoadResult name.
Blamed(f, errors) ==
    {f[errors[i][1].dir].files[errors[i][1].file] :
        i \in {j \in DOMAIN errors : errors[j][1].file # 0}}

\* C26: in the strict and the tolerant loads an entry whose extension is not
\* "json" contributes no identifiers and no errors whatever its content: every
\* load gives the result, and the store, it gives for the same file system with
\* those entries removed.
C26_OnlyJsonConsulted ==
    LET g == Stripped(fs) IN
    /\ loaded.op = "load_from_directory" =>
        loaded.result = UnstrippedResult(fs, load_from_directory(g, loaded.path))
    /\ loaded.op = "store.load_from_directory" =>
        LET r == store_load_from_directory(loaded.pre, g, loaded.path) IN
        /\ loaded.result = UnstrippedResult(fs, r.result)
        /\ store = r.store
    /\ loaded.op = "load_from_config" =>
        /\ loaded.result = UnstrippedLoadResult(fs, load_from_config(g, loaded.config))
        /\ \A e \in Blamed(fs, loaded.result.errors) : e.ext = "json"
    /\ loaded.op = "store.load_from_config" =>
        LET r == load_from_config(g, loaded.config) IN
        /\ loaded.result = UnstrippedLoadResult(fs, r)
        /\ \A e \in Blamed(fs, loaded.result.errors) : e.ext = "json"
        /\ \E o \in Orders(r.values) :
              store = store_load_from_config(loaded.pre, g, loaded.config, o).store

\* A tolerant load of a directory listing a .txt file with a registry entry
\* for codepoint 1 before a .json file defining codepoint 2.
C26_Witness ==
    /\ loaded.op = "load_from_config"
    /\ loaded.config = <<"d1">>
    /\ fs["d1"].kind = "dir"
    /\ fs["d1"].files =
         <<File("txt", "ok", <<[codepoint |-> 1, canonical_name |-> "x"]>>),
           File("json", "ok", <<[codepoint |-> 2, canonical_name |-> "isA"]>>)>>
    /\ DOMAIN loaded.result.values = {2}
    /\ loaded.result.errors = <<>>

\* The location holds registry files with empty entries lists and nothing else.
EmptyCollection(d) ==
    /\ fs[d].kind = "dir"
    /\ fs[d].files # <<>>
    /\ \A i \in DOMAIN fs[d].files : fs[d].files[i] = File("json", "ok", <<>>)

\* C27: a location holding only a file with an empty entries list loads with
\* no identifiers and no diagnostics: the strict load returns Ok with count 0,
\* load_from_config has values_count() = 0 and has_errors() = FALSE, and a
\* store it is loaded into is unchanged.
C27_EmptyCollectionValid ==
    /\ (loaded.op = "load_from_directory" /\ EmptyCollection(loaded.path)) =>
        loaded.result = Ok(<<>>)
    /\ (loaded.op = "store.load_from_directory" /\ EmptyCollection(loaded.path)) =>
        /\ loaded.result = Ok(0)
        /\ store = loaded.pre
    /\ (loaded.op \in {"load_from_config", "store.load_from_config"}
        /\ loaded.config # <<>>
        /\ \A i \in DOMAIN loaded.config : EmptyCollection(loaded.config[i])) =>
        /\ values_count(loaded.result) = 0
        /\ ~has_errors(loaded.result)
        /\ loaded.result.files_processed = loaded.config
        /\ loaded.op = "store.load_from_config" => store = loaded.pre

\* A store holding isA loaded from a configuration naming one such location.
C27_Witness ==
    /\ loaded.op = "store.load_from_config"
    /\ loaded.config = <<"d1">>
    /\ fs["d1"] = Location("dir", <<File("json", "ok", <<>>)>>)
    /\ loaded.pre = new(<<IS_A>>)
    /\ store = loaded.pre
    /\ values_count(loaded.result) = 0
    /\ ~has_errors(loaded.result)

\* C30: for a fixed configuration and fixed directory contents,
\* KnownValuesStore::load_from_config leaves the same store, codepoint index
\* and name index, whatever the order in which result.values.values() yields
\* the merged identifiers.
C30_DeterministicMergedStore ==
    loaded.op = "store.load_from_config" =>
        \A o \in Orders(loaded.result.values) :
            store = store_load_from_config(loaded.pre, fs, loaded.config, o).store

\* The location lists well-formed registry files and nothing else.
AllWellFormed(d) ==
    fs[d].kind = "dir" /\ \A i \in DOMAIN fs[d].files : WellFormed(fs[d].files[i])

\* The file system with the entries of d enumerated in order o.
Enumerated(d, o) ==
    [fs EXCEPT ![d].files = [i \in DOMAIN o |-> fs[d].files[o[i]]]]

\* The identifiers a strict load yields for codepoint c.
YieldedFor(r, c) == {v \in Range(r.value) : v.value = c}

\* C31: for a fixed set of well-formed files in one location, the identifiers
\* load_from_directory and load_from_config yield for each codepoint are the
\* same for every order in which read_dir enumerates the files, also when two
\* files define one codepoint with different names.
C31_EnumerationOrderIndependent ==
    /\ (loaded.op = "load_from_directory" /\ AllWellFormed(loaded.path)) =>
        \A o \in Orders(fs[loaded.path].files) :
            LET r == load_from_directory(Enumerated(loaded.path, o), loaded.path) IN
            /\ r.ok = loaded.result.ok
            /\ \A c \in Codepoints : YieldedFor(r, c) = YieldedFor(loaded.result, c)
    /\ (loaded.op = "load_from_config" /\ Len(loaded.config) = 1
        /\ AllWellFormed(loaded.config[1])) =>
        \A o \in Orders(fs[loaded.config[1]].files) :
            load_from_config(Enumerated(loaded.config[1], o), loaded.config).values
                = loaded.result.values

\* C32: when KnownValuesStore::load_from_directory returns Err, the store's
\* codepoint index and name index are as before the call: no identifier of any
\* file of the location, also of a well-formed file read before the failing
\* one, has been inserted.
C32_StrictLoadAllOrNothing ==
    (loaded.op = "store.load_from_directory" /\ ~loaded.result.ok) =>
        /\ store = loaded.pre
        /\ store.known_values_by_raw_value = loaded.pre.known_values_by_raw_value
        /\ store.known_values_by_assigned_name = loaded.pre.known_values_by_assigned_name

\* A store holding isA loads a directory listing a well-formed file that
\* defines (2, "x") before a malformed one.
C32_Witness ==
    /\ loaded.op = "store.load_from_directory"
    /\ loaded.path = "d1"
    /\ fs["d1"] = Location("dir",
           <<File("json", "ok", <<[codepoint |-> 2, canonical_name |-> "x"]>>),
             File("json", "malformed", <<>>)>>)
    /\ loaded.result = Err(Json(Path("d1", 2)))
    /\ loaded.pre = new(<<IS_A>>)
    /\ store = loaded.pre

\* read_dir lists the location and every .json file in it is well-formed.
Clean(d) ==
    /\ Listable(fs[d])
    /\ \A i \in DOMAIN fs[d].files : IsJson(fs[d].files[i]) => fs[d].files[i].status = "ok"

\* C35: for one location whose .json files are all well-formed,
\* KnownValuesStore::load_from_config(with_paths([d])) leaves the store, from
\* the store it started with and the files in the order they are listed, with
\* the codepoint index and the name index KnownValuesStore::load_from_directory(d)
\* leaves.
C35_StrictAndAggregateAgree ==
    (loaded.op = "store.load_from_config" /\ Len(loaded.config) = 1
     /\ Clean(loaded.config[1])) =>
        LET strict == store_load_from_directory(loaded.pre, fs, loaded.config[1]) IN
        /\ strict.result.ok
        /\ store.known_values_by_raw_value = strict.store.known_values_by_raw_value
        /\ store.known_values_by_assigned_name = strict.store.known_values_by_assigned_name

\* The locations of the errors keyed by a location's own path, in order.
LocationErrors(result) ==
    LET own == SelectSeq(result.errors, LAMBDA e : e[1].file = 0)
    IN [i \in DOMAIN own |-> own[i][1].dir]

C37_SiblingWorkKept ==
    ConfigLoaded =>
        \A i \in DOMAIN loaded.config :
            LET d == loaded.config[i] IN
            (fs[d].kind = "dir" /\ ~Listable(fs[d]) /\ ParsedFiles(d) # {}) =>
                /\ \A v \in Parsed(d) : v.value \in DOMAIN loaded.result.values
                /\ \E j \in DOMAIN loaded.result.errors :
                      loaded.result.errors[j][1].dir = d

(***************************************************************************)
(* Claims about the registry file format (checked under SpecSchema)        *)
(***************************************************************************)

\* d lists registry files of the form {"entries": [{"codepoint": c, "name": n}]}
\* and nothing else.
NameKeyed(d) ==
    /\ fs[d].kind = "dir"
    /\ fs[d].files # <<>>
    /\ \A i \in DOMAIN fs[d].files : fs[d].files[i] \in NameKeyedFiles

\* The entries of the files d lists.
NameKeyedEntries(d) == {fs[d].files[i].entries[1] : i \in DOMAIN fs[d].files}

\* C28: a registry file whose entries give the name under the key "name" and
\* have no "canonical_name" key is accepted by load_from_directory and
\* load_from_config: the load succeeds without a parse error and each entry
\* becomes an identifier with its codepoint and name.
C28_NameKeyAccepted ==
    /\ (loaded.op = "load_from_directory" /\ NameKeyed(loaded.path)) =>
        /\ loaded.result.ok
        /\ \A e \in NameKeyedEntries(loaded.path) :
              \E i \in DOMAIN loaded.result.value :
                  loaded.result.value[i] = KV(e.codepoint, Some(e.name))
    /\ (loaded.op = "store.load_from_directory" /\ NameKeyed(loaded.path)) =>
        /\ loaded.result = Ok(Len(fs[loaded.path].files))
        /\ \A e \in NameKeyedEntries(loaded.path) :
              e.codepoint \in DOMAIN store.known_values_by_raw_value
    /\ (loaded.op \in {"load_from_config", "store.load_from_config"}
        /\ loaded.config # <<>>
        /\ \A i \in DOMAIN loaded.config : NameKeyed(loaded.config[i])) =>
        /\ ~has_errors(loaded.result)
        /\ \A i \in DOMAIN loaded.config :
              \A e \in NameKeyedEntries(loaded.config[i]) :
                  /\ e.codepoint \in DOMAIN loaded.result.values
                  /\ loaded.result.values[e.codepoint].assigned_name \in
                        {Some(x.name) : x \in {y \in NameKeyedEntries(loaded.config[i]) :
                                                  y.codepoint = e.codepoint}}

(***************************************************************************)
(* Claims about the shared registry (checked under SpecReg)                *)
(***************************************************************************)

ConfigOps == {"set_directory_config", "add_search_paths"}

\* A configuration call of thread t that has returned.
Returned(t) == call[t].op \in ConfigOps /\ call[t].result \in {"Ok", "Err"}

\* C4: every set_directory_config or add_search_paths call that started after
\* the first KNOWN_VALUES.get() had returned has returned
\* Err(AlreadyInitialized), and every such call that returned before any
\* get() was started has returned Ok(()).
C4_FreezeSemantics ==
    \A t \in Threads :
        Returned(t) =>
            /\ call[t].after_access => call[t].result = "Err"
            /\ call[t].before_access => call[t].result = "Ok"

\* A get() of thread t that has returned its guard.
Got(t) == call[t].op = "get" /\ call[t].result = "guard"

\* C5: whatever the interleaving of the threads' get() calls, the closure that
\* builds the store has run at most once, it has run exactly once when a
\* get() has returned, and every guard returned shows the store that one run
\* built.
C5_ExactlyOnce ==
    /\ hist.builds <= 1
    /\ \A t \in Threads :
        Got(t) => /\ hist.builds = 1
                  /\ view[t].build = 1
                  /\ view[t].value = Some(closure_store)
    /\ \A t, u \in Threads : Got(t) /\ Got(u) => view[t] = view[u]

\* Both threads made their get() while the Once was still incomplete, and
\* both have their guard back.
C5_Witness ==
    \A t \in Threads : Got(t) /\ call[t].began = "incomplete"

\* The configuration materialization has to capture: the one set when the
\* closure ran, or the default one.
MaterializedConfig ==
    IF hist.pending = None THEN default_only ELSE hist.pending[1]

\* The built-in table with the overlay load of config inserted on top, for
\* each order in which the loaded values can be iterated.
Composed(config) ==
    {store_load_from_config(closure_store, fs, config, o).store :
        o \in Orders(load_from_config(fs, config).values)}

\* C6: the store behind the guard a get() returned is the built-in table with
\* the overlay load of the captured configuration inserted on top of it.
C6_BuiltInsThenOverlays ==
    \A t \in Threads :
        Got(t) => /\ view[t].value # None
                  /\ view[t].value[1] \in Composed(MaterializedConfig)

\* C12: in the store behind every guard a get() returned, each constant of the
\* built-in table, with codepoint c and name n, is found under c with the
\* name n, and known_value_named(n) returns an identifier with codepoint c.
C12_BuiltInsResolveBothWays ==
    \A t \in Threads :
        Got(t) =>
            /\ view[t].value # None
            /\ \A i \in DOMAIN BuiltIns :
                LET c == BuiltIns[i].value
                    n == BuiltIns[i].assigned_name[1]
                    s == view[t].value[1]
                IN /\ known_value_for_raw_value(c, view[t].value).assigned_name = Some(n)
                   /\ known_value_named(s, n) # None
                   /\ known_value_named(s, n)[1].value = c

\* C13: once the shared store is built, no step of get(),
\* set_directory_config or add_search_paths writes to KNOWN_VALUES.data: its
\* two indices stay as they are and the closure does not run again.
C13_FrozenAfterMaterialization ==
    [][data # None => (data' = data /\ hist'.builds = hist.builds)]_vars

\* The store is built, a thread's get() that began with the Once complete has
\* returned, and another thread's configuration call made after the first
\* access has returned.
C13_Witness ==
    /\ data # None
    /\ \E t, u \in Threads :
        /\ Got(t) /\ call[t].began = "complete" /\ view[t].value = data
        /\ Returned(u) /\ call[u].after_access

\* C14: whatever the interleaving of the threads' get() calls, every guard
\* returned holds Some(store), and the store has every constant of the
\* built-in table under its codepoint; no guard shows None or a store with
\* part of the table.
C14_NeverUnbuilt ==
    \A t \in Threads :
        Got(t) =>
            /\ view[t].value # None
            /\ \A i \in DOMAIN BuiltIns :
                LET by_raw == view[t].value[1].known_values_by_raw_value IN
                /\ BuiltIns[i].value \in DOMAIN by_raw
                /\ by_raw[BuiltIns[i].value] = BuiltIns[i]

\* A thread called get() while another was running the closure, and has its
\* guard back.
C14_Witness ==
    \E t \in Threads : Got(t) /\ call[t].began = "running"

(***************************************************************************)
(* Claims about termination (checked under SpecGetFair)                    *)
(***************************************************************************)

\* Thread t is inside KNOWN_VALUES.get().
InGet(t) == pc[t] \in {"call_once", "closure", "once_done", "lock"}

\* Thread t called get() while holding the guard of an earlier get().
Reentered(t) == InGet(t) /\ data_owner = t

\* C38: under fair scheduling, with every guard dropped by its holder, every
\* KNOWN_VALUES.get() call returns, also one that arrives while the one-time
\* initialization is running, unless some thread called get() while itself
\* holding a guard.
C38_GetTerminates ==
    \A t \in Threads :
        InGet(t) ~> (pc[t] = "idle" \/ \E u \in Threads : Reentered(u))

\* A get() that began while another thread was running the closure has
\* returned its guard.
C38_Witness ==
    \E t \in Threads :
        /\ call[t].op = "get"
        /\ call[t].began = "running"
        /\ call[t].result = "guard"
        /\ pc[t] = "idle"
        /\ data_owner = t

(***************************************************************************)
(* Claims about the pending configuration (checked under SpecPending)      *)
(***************************************************************************)

\* The pending paths: those of the configuration set, or of the default-only
\* configuration when none is set.
Pending(custom) == IF custom = None THEN <<default_directory>> ELSE custom[1]

\* C20: the step of set_directory_config(cfg) that writes makes the pending
\* configuration cfg, whatever it was; the step of add_search_paths(ps) that
\* writes makes it the paths pending before (the default directory alone when
\* no configuration was set) followed by ps in order, so that every path of
\* ps comes after every earlier one; both calls return Ok(()).
C20_PendingConfiguration ==
    [][\A t \in Threads :
        (pc[t] = "write" /\ pc'[t] = "idle") =>
            /\ call'[t].result = "Ok"
            /\ CUSTOM_CONFIG' # None
            /\ call[t].op = "set_directory_config" => CUSTOM_CONFIG'[1] = call[t].arg
            /\ call[t].op = "add_search_paths" =>
                LET before == Pending(CUSTOM_CONFIG)
                    after == CUSTOM_CONFIG'[1]
                    ps == call[t].arg
                IN /\ Len(after) = Len(before) + Len(ps)
                   /\ \A i \in DOMAIN before : after[i] = before[i]
                   /\ \A i \in DOMAIN ps : after[Len(before) + i] = ps[i]]_vars

\* A configuration was set and two paths were then added to it.
C20_Witness ==
    \E t, u \in Threads :
        /\ call[t].op = "add_search_paths"
        /\ call[t].result = "Ok"
        /\ call[t].arg = <<"d1", default_directory>>
        /\ call[u].op = "set_directory_config"
        /\ call[u].result = "Ok"
        /\ call[u].arg = <<"d1">>
        /\ CUSTOM_CONFIG = Some(<<"d1", "d1", default_directory>>)

(***************************************************************************)
(* Claims about the standalone loads (checked under SpecStandalone)        *)
(***************************************************************************)

\* C24: a load made at any point of the registry's life, locked or not, built
\* or not, gives what the file system and its arguments alone determine, and
\* the step that makes it leaves the freeze flag, the pending configuration
\* and the shared registry as they are.
C24_LoadsIndependentOfFreeze ==
    /\ [](/\ loaded.op = "load_from_directory"
              => loaded.result = load_from_directory(fs, loaded.path)
          /\ loaded.op = "store.load_from_directory"
              => /\ loaded.result = store_load_from_directory(loaded.pre, fs, loaded.path).result
                 /\ store = store_load_from_directory(loaded.pre, fs, loaded.path).store
          /\ ConfigLoaded
              => loaded.result = load_from_config(fs, loaded.config)
          /\ loaded.op = "store.load_from_config"
              => \E o \in Orders(load_from_config(fs, loaded.config).values) :
                    store = store_load_from_config(loaded.pre, fs, loaded.config, o).store)
    /\ [][loaded' # loaded =>
            UNCHANGED <<CONFIG_LOCKED, CUSTOM_CONFIG, init, data, data_owner>>]_vars

\* With the registry built and the configuration locked, load_from_config
\* read the registry file of the default directory.
C24_Witness ==
    /\ loaded.op = "load_from_config"
    /\ loaded.locked
    /\ loaded.built
    /\ fs = OverlayFiles
    /\ values_count(loaded.result) = 1
    /\ loaded.result.values[1] = KV(1, Some("x"))
    /\ CONFIG_LOCKED
    /\ data # None

(***************************************************************************)
(* Claims about the configuration race (checked under SpecCfg)             *)
(***************************************************************************)

\* A configuration call of thread t returned Ok(()) and wrote before the
\* capture.
Succeeded(t) == call[t].op \in ConfigOps /\ call[t].result = "Ok" /\ ~call[t].late

\* C21: while nothing is captured, a configuration is pending once a
\* set_directory_config or add_search_paths call has succeeded; the step of
\* get_and_lock_config that captures takes the pending configuration when
\* there is one, and otherwise the configuration whose only path is the
\* default directory.
C21_CapturedConfiguration ==
    /\ []((hist.captured = None /\ \E t \in Threads : Succeeded(t))
              => CUSTOM_CONFIG # None)
    /\ [][\A t \in Threads :
            (pc[t] = "take" /\ pc'[t] = "idle") =>
                /\ call'[t].result = "config"
                /\ CUSTOM_CONFIG # None => hist'.captured = Some(CUSTOM_CONFIG[1])
                /\ CUSTOM_CONFIG = None => hist'.captured = Some(<<default_directory>>)]_vars

\* With no configuration set, "d1" was added and the call returned; then
\* get_and_lock_config captured the default directory followed by "d1".
C21_Witness ==
    /\ hist.captured = Some(<<default_directory, "d1">>)
    /\ \E t, u \in Threads :
        /\ call[t].op = "get_and_lock_config" /\ call[t].result = "config"
        /\ call[u].op = "add_search_paths" /\ Succeeded(u)

\* C33: the steps of a set_directory_config or add_search_paths call that
\* returns Err(AlreadyInitialized), its entry and the check that rejects it,
\* leave the pending configuration and the freeze flag as they are.
C33_RejectedCallChangesNothing ==
    [][\A t \in Threads :
        /\ (pc[t] = "idle" /\ pc'[t] = "check") =>
              UNCHANGED <<CUSTOM_CONFIG, CONFIG_LOCKED>>
        /\ (call[t].op \in ConfigOps /\ call[t].result # "Err"
            /\ call'[t].result = "Err") =>
              /\ pc[t] = "check"
              /\ pc'[t] = "idle"
              /\ UNCHANGED <<CUSTOM_CONFIG, CONFIG_LOCKED>>]_vars

\* A configuration was set; get_and_lock_config has stored the flag and not
\* yet taken the configuration; add_search_paths was rejected, and the
\* configuration set before is still pending.
C33_Witness ==
    /\ CONFIG_LOCKED
    /\ CUSTOM_CONFIG = Some(<<"d1">>)
    /\ \E t, u \in Threads :
        /\ pc[t] = "take"
        /\ call[u].op = "add_search_paths"
        /\ call[u].result = "Err"
        /\ pc[u] = "idle"

\* C34: once CONFIG_LOCKED is true it is true in every later state; a
\* configuration call has been rejected only with the flag set, and every
\* configuration call made after one was rejected is rejected as well.
C34_FreezeIrreversible ==
    /\ [][CONFIG_LOCKED => CONFIG_LOCKED']_vars
    /\ [](hist.rejected => CONFIG_LOCKED)
    /\ [](\A t \in Threads :
            (call[t].op \in ConfigOps /\ call[t].after_err /\ pc[t] = "idle")
                => call[t].result = "Err")

\* After get_and_lock_config one thread's call was rejected, and a call made
\* by the other thread after that was rejected as well.
C34_Witness ==
    /\ CONFIG_LOCKED
    /\ hist.captured # None
    /\ \E t, u \in Threads :
        /\ t # u
        /\ call[t].op = "set_directory_config" /\ call[t].result = "Err"
        /\ call[u].op = "add_search_paths" /\ call[u].after_err
        /\ call[u].result = "Err" /\ pc[u] = "idle"

\* C7: every set_directory_config or add_search_paths call that returned
\* Ok(()) made its change before get_and_lock_config captured the
\* configuration; a call whose change came after the capture returned
\* Err(AlreadyInitialized).
C7_NoSilentLoss ==
    \A t \in Threads :
        (call[t].op \in ConfigOps /\ call[t].result = "Ok") => ~call[t].late

====
